---------------------------- MODULE Spec2Model ----------------------------
(***************************************************************************)
(* A model of src/assignment5.py, the building-management controller.      *)
(*                                                                         *)
(* The program runs four threads over module-level globals:                *)
(*   - monitor_environment (main thread): sensor read, weather index,      *)
(*     fire-alarm transition, HVAC evaluation;                             *)
(*   - motion_monitor (daemon thread): PIR-driven ambient light;           *)
(*   - fire_alarm_loop (daemon thread): LED flashing and alert screen;     *)
(*   - the gpiozero callback thread, which runs the three when_pressed     *)
(*     handlers one at a time (toggle_door_state sleeps 3 s inside it).    *)
(* There is no lock anywhere in the program, so the threads interleave     *)
(* between any two accesses of shared state.  Every action below is one    *)
(* access of shared state together with the thread-private computation     *)
(* that precedes it; pc_* hold the source line each thread is about to     *)
(* execute ("L196" = line 196 of src/assignment5.py).                      *)
(***************************************************************************)
EXTENDS Integers, Sequences, FiniteSets, TLC

VARIABLES
    temperature_readings, \* deque(maxlen=3) of Fahrenheit samples, in fifths of a degree
    desired_temp,         \* setpoint
    ambient_light_on,
    door_open,
    last_motion_time,
    fire_alarm_active,
    hvac_state,           \* "OFF" | "HEAT" | "AC"
    humidity,             \* local of monitor_environment, fetched once (line 184)
    avg_temp,             \* local of monitor_environment (line 188), NoValue for None
    wi,                   \* local of monitor_environment (line 190), NoValue before line 190 ran
    prev_state,           \* local of monitor_environment (line 216); unset, and never
                          \* read, before line 216 first runs: "OFF" stands for that
    red_led,              \* heat output
    blue_led,             \* cool output
    green_led,            \* ambient light output
    lcd,                  \* which screen the LCD shows
    log,                  \* log.txt: per event family, its last line and whether
                          \* the line before it in the family was the same line
    now,                  \* time.time(), in whole seconds
    pushed,               \* history: every sample appended so far (bounded runs only)
    pc_main, pc_motion, pc_fire, pc_btn

vars == << temperature_readings, desired_temp, ambient_light_on, door_open,
           last_motion_time, fire_alarm_active, hvac_state, humidity, avg_temp,
           wi, prev_state, red_led, blue_led, green_led, lcd, log, now, pushed,
           pc_main, pc_motion, pc_fire, pc_btn >>

\* The groups of variables each thread can write, for UNCHANGED clauses.
sensorVars == << temperature_readings, avg_temp, wi, pushed >>
motionVars == << ambient_light_on, last_motion_time >>
ledVars    == << red_led, blue_led, green_led >>

-----------------------------------------------------------------------------
(* Program constants *)

WindowSize      == 3     \* deque(maxlen=3); len(...) == 3; sum(...) / 3
InitialSetpoint == 72
MinSetpoint     == 65
MaxSetpoint     == 99
FireThreshold   == 90    \* wi > 90
HvacBand        == 3     \* desired_temp - 3, desired_temp + 3
LightTimeout    == 10    \* time.time() - last_motion_time > 10
FallbackHumidity == 55

(* Bounds of the model *)

MaxTime    == 12   \* the clock stops MaxTime seconds after start-up
MaxSamples == 5    \* successful sensor reads in the runs that record `pushed`
MaxDrift   == 2    \* how far the buttons move the setpoint from 72 in the concurrent runs

(* Inputs *)

NoValue == -1                     \* Python's None for avg_temp / wi
StartTime == 100                  \* time.time() at start-up; any value > LightTimeout
Celsius == {18, 30, 31}           \* dht_sensor.getTemperature() values
Humidities == {FallbackHumidity}  \* get_humidity() results

-----------------------------------------------------------------------------
(* Arithmetic of get_average_temperature and the weather index *)

\* Python 3 round() of the rational num/den (den > 0): nearest, ties to even.
Round(num, den) ==
    LET q == num \div den
        r == num % den
    IN  IF 2 * r < den THEN q
        ELSE IF 2 * r > den THEN q + 1
        ELSE IF q % 2 = 0 THEN q ELSE q + 1

\* temp_f = temp_c * 9 / 5 + 32, kept exactly as a count of fifths of a degree.
FahrenheitFifths(temp_c) == 9 * temp_c + 160

RECURSIVE SumSeq(_)
SumSeq(s) == IF s = << >> THEN 0 ELSE Head(s) + SumSeq(Tail(s))

\* The last n elements of s.
LastN(s, n) == IF Len(s) <= n THEN s ELSE SubSeq(s, Len(s) - n + 1, Len(s))

\* A deque that refuses the new sample once full, instead of evicting the oldest.
DequeAppendKeepsOldest(d, x) == IF Len(d) < WindowSize THEN Append(d, x) ELSE d

\* deque(maxlen=3).append(x)
DequeAppend(d, x) == LastN(Append(d, x), WindowSize)

\* round(sum(temperature_readings) / 3), the readings being fifths of a degree
AverageOf(d) == Round(SumSeq(d), 5 * WindowSize)

\* the value get_average_temperature returns after appending x to d
AverageAfterAppend(d, x) ==
    IF Len(DequeAppend(d, x)) = WindowSize THEN AverageOf(DequeAppend(d, x)) ELSE NoValue

\* wi = round(avg_temp + 0.05 * humidity)
WeatherIndex(avg, h) == Round(20 * avg + h, 20)

-----------------------------------------------------------------------------
(* log.txt *)

Family(msg) ==
    CASE msg \in {"HVAC OFF", "HVAC HEAT", "HVAC AC"}         -> "HVAC"
      [] msg \in {"LIGHTS ON", "LIGHTS OFF"}                  -> "LIGHTS"
      [] msg \in {"DOOR OPEN", "DOOR CLOSED"}                 -> "DOOR"
      [] msg \in {"FIRE ALARM ON", "FIRE ALARM OFF"}          -> "FIRE"

Families == {"HVAC", "LIGHTS", "DOOR", "FIRE"}

HvacMessage(state) ==
    CASE state = "OFF" -> "HVAC OFF" [] state = "HEAT" -> "HVAC HEAT" [] state = "AC" -> "HVAC AC"

NoLine == [last |-> "none", repeated |-> FALSE]

\* log_event(message): the line is appended to log.txt.  Of every family the model
\* keeps the last line, and whether that line repeats the family's line before it.
LogEvent(l, msg) ==
    [l EXCEPT ![Family(msg)] = [last |-> msg, repeated |-> (@.last = msg)]]

-----------------------------------------------------------------------------
(* State after the module's globals are set and initialize_system() has run *)

Init ==
    /\ temperature_readings = << >>
    /\ desired_temp = InitialSetpoint
    /\ ambient_light_on = FALSE
    /\ door_open = FALSE
    /\ last_motion_time = 0
    /\ fire_alarm_active = FALSE
    /\ hvac_state = "OFF"
    /\ humidity \in Humidities
    /\ avg_temp = NoValue
    /\ wi = NoValue
    /\ prev_state = "OFF"
    /\ red_led = FALSE
    /\ blue_led = FALSE
    /\ green_led = FALSE
    /\ lcd = "blank"
    /\ log = [f \in Families |-> NoLine]
    /\ now = StartTime
    /\ pushed = << >>
    /\ pc_main = "L188"
    /\ pc_motion = "L78"
    /\ pc_fire = "L97"
    /\ pc_btn = "idle"

-----------------------------------------------------------------------------
(* monitor_environment, lines 187-240 *)

mainFrame == << desired_temp, ambient_light_on, last_motion_time, humidity, now,
                pc_motion, pc_fire, pc_btn >>

\* get_average_temperature(), except that a failed read empties the window.
GetAverageTemperatureResets(ok, temp_c) ==
    /\ temperature_readings' =
          IF ok THEN DequeAppend(temperature_readings, FahrenheitFifths(temp_c))
                ELSE << >>
    /\ avg_temp' =
          IF ok THEN AverageAfterAppend(temperature_readings, FahrenheitFifths(temp_c))
                ELSE NoValue

\* get_average_temperature(): chk == 0 is `ok`, getTemperature() is temp_c.
GetAverageTemperature(ok, temp_c) ==
    /\ temperature_readings' =
          IF ok THEN DequeAppend(temperature_readings, FahrenheitFifths(temp_c))
                ELSE temperature_readings
    /\ avg_temp' =
          IF ok THEN AverageAfterAppend(temperature_readings, FahrenheitFifths(temp_c))
                ELSE NoValue

\* Lines 188-190 (and 240 when avg_temp is None): one pass through the top of the loop.
PollSensor(ok, temp_c) ==
    /\ pc_main = "L188"
    /\ GetAverageTemperature(ok, temp_c)
    /\ IF avg_temp' # NoValue
          THEN wi' = WeatherIndex(avg_temp', humidity) /\ pc_main' = "L193"
          ELSE wi' = wi /\ pc_main' = "L188"
    /\ UNCHANGED << door_open, fire_alarm_active, hvac_state, prev_state, ledVars,
                    lcd, log, mainFrame >>

ReadSensor == \E temp_c \in Celsius : PollSensor(TRUE, temp_c) /\ UNCHANGED pushed

ReadSensorFails == PollSensor(FALSE, 0) /\ UNCHANGED pushed

\* The same read, with the sample recorded in the history variable.
ReadSensorRecorded ==
    /\ Len(pushed) < MaxSamples
    /\ \E temp_c \in Celsius :
          /\ PollSensor(TRUE, temp_c)
          /\ pushed' = Append(pushed, FahrenheitFifths(temp_c))

\* The threshold test with >= in place of >.
FireTripsAtThreshold(w) == w >= FireThreshold

FireTrips(w) == w > FireThreshold

\* Lines 193-195 and 201-202: the alarm transition.  fire_alarm_active is written
\* by this thread alone, so the test and the assignment are one step.
CheckAlarm ==
    /\ pc_main = "L193"
    /\ IF FireTrips(wi)
          THEN IF ~fire_alarm_active
                  THEN fire_alarm_active' = TRUE /\ pc_main' = "L196"
                  ELSE fire_alarm_active' = fire_alarm_active /\ pc_main' = "L211"
          ELSE IF fire_alarm_active
                  THEN fire_alarm_active' = FALSE /\ pc_main' = "L203"
                  ELSE fire_alarm_active' = fire_alarm_active /\ pc_main' = "L211"
    /\ UNCHANGED << door_open, hvac_state, prev_state, ledVars, lcd, log,
                    sensorVars, mainFrame >>

\* Line 196
AlarmForceDoor ==
    /\ pc_main = "L196"
    /\ door_open' = TRUE
    /\ pc_main' = "L197"
    /\ UNCHANGED << fire_alarm_active, hvac_state, prev_state, ledVars, lcd, log,
                    sensorVars, mainFrame >>

\* Line 197
AlarmRedOff ==
    /\ pc_main = "L197"
    /\ red_led' = FALSE
    /\ pc_main' = "L198"
    /\ UNCHANGED << door_open, fire_alarm_active, hvac_state, prev_state, blue_led,
                    green_led, lcd, log, sensorVars, mainFrame >>

\* Line 198
AlarmBlueOff ==
    /\ pc_main = "L198"
    /\ blue_led' = FALSE
    /\ pc_main' = "L199"
    /\ UNCHANGED << door_open, fire_alarm_active, hvac_state, prev_state, red_led,
                    green_led, lcd, log, sensorVars, mainFrame >>

\* Lines 199-200: two lines of different families, which the log keeps apart
AlarmLog ==
    /\ pc_main = "L199"
    /\ log' = LogEvent(LogEvent(log, "FIRE ALARM ON"), "HVAC OFF")
    /\ pc_main' = "L211"
    /\ UNCHANGED << door_open, fire_alarm_active, hvac_state, prev_state, ledVars,
                    lcd, sensorVars, mainFrame >>

\* Line 203
AlarmExitGreenOff ==
    /\ pc_main = "L203"
    /\ green_led' = FALSE
    /\ pc_main' = "L204"
    /\ UNCHANGED << door_open, fire_alarm_active, hvac_state, prev_state, red_led,
                    blue_led, lcd, log, sensorVars, mainFrame >>

\* Lines 204-208
AlarmExitNotice ==
    /\ pc_main = "L204"
    /\ log' = LogEvent(log, "FIRE ALARM OFF")
    /\ lcd' = "fire_over"
    /\ pc_main' = "L211"
    /\ UNCHANGED << door_open, fire_alarm_active, hvac_state, prev_state, ledVars,
                    sensorVars, mainFrame >>

\* The gate without its test of fire_alarm_active.
HvacGateIgnoringAlarm ==
    /\ pc_main = "L211"
    /\ lcd' = "status" /\ prev_state' = hvac_state /\ pc_main' = "L219"
    /\ UNCHANGED << door_open, fire_alarm_active, hvac_state, ledVars, log,
                    sensorVars, mainFrame >>

\* Lines 211-216 (and 240 when the alarm is active): the gate of the HVAC evaluation.
HvacGate ==
    /\ pc_main = "L211"
    /\ IF ~fire_alarm_active
          THEN lcd' = "status" /\ prev_state' = hvac_state /\ pc_main' = "L219"
          ELSE lcd' = lcd /\ prev_state' = prev_state /\ pc_main' = "L188"
    /\ UNCHANGED << door_open, fire_alarm_active, hvac_state, ledVars, log,
                    sensorVars, mainFrame >>

\* The heating test with <= in place of <.
NeedsHeatAtBand(w, setpoint) == w <= setpoint - HvacBand

NeedsHeat(w, setpoint) == w < setpoint - HvacBand

NeedsCooling(w, setpoint) == w > setpoint + HvacBand

\* Lines 219-220
HvacDoorRule ==
    /\ pc_main = "L219"
    /\ IF door_open
          THEN hvac_state' = "OFF" /\ pc_main' = "L221"
          ELSE hvac_state' = hvac_state /\ pc_main' = "L223"
    /\ UNCHANGED << door_open, fire_alarm_active, prev_state, ledVars, lcd, log,
                    sensorVars, mainFrame >>

\* Lines 223-224
HvacHeatRule ==
    /\ pc_main = "L223"
    /\ IF NeedsHeat(wi, desired_temp)
          THEN hvac_state' = "HEAT" /\ pc_main' = "L225"
          ELSE hvac_state' = hvac_state /\ pc_main' = "L227"
    /\ UNCHANGED << door_open, fire_alarm_active, prev_state, ledVars, lcd, log,
                    sensorVars, mainFrame >>

\* Lines 227-228 and 231-232
HvacCoolRule ==
    /\ pc_main = "L227"
    /\ IF NeedsCooling(wi, desired_temp)
          THEN hvac_state' = "AC" /\ pc_main' = "L229"
          ELSE hvac_state' = "OFF" /\ pc_main' = "L233"
    /\ UNCHANGED << door_open, fire_alarm_active, prev_state, ledVars, lcd, log,
                    sensorVars, mainFrame >>

\* One LED write of the HVAC evaluation: at line `at`, red_led and blue_led become
\* `red` and `blue`, and control passes to line `next`.
HvacLed(at, red, blue, next) ==
    /\ pc_main = at
    /\ red_led' = red
    /\ blue_led' = blue
    /\ pc_main' = next
    /\ UNCHANGED << door_open, fire_alarm_active, hvac_state, prev_state, green_led,
                    lcd, log, sensorVars, mainFrame >>

DoorRedOff   == HvacLed("L221", FALSE, blue_led, "L222")   \* line 221
DoorBlueOff  == HvacLed("L222", red_led, FALSE, "L237")    \* line 222
HeatRedOn    == HvacLed("L225", TRUE, blue_led, "L226")    \* line 225
HeatBlueOff  == HvacLed("L226", red_led, FALSE, "L237")    \* line 226
CoolBlueOn   == HvacLed("L229", red_led, TRUE, "L230")     \* line 229
CoolRedOff   == HvacLed("L230", FALSE, blue_led, "L237")   \* line 230
IdleRedOff   == HvacLed("L233", FALSE, blue_led, "L234")   \* line 233
IdleBlueOff  == HvacLed("L234", red_led, FALSE, "L237")    \* line 234

\* Lines 237-240
HvacLogChange ==
    /\ pc_main = "L237"
    /\ log' = IF hvac_state # prev_state THEN LogEvent(log, HvacMessage(hvac_state)) ELSE log
    /\ pc_main' = "L188"
    /\ UNCHANGED << door_open, fire_alarm_active, hvac_state, prev_state, ledVars,
                    lcd, sensorVars, mainFrame >>

\* Lines 192-208
AlarmTransition ==
    \/ CheckAlarm \/ AlarmForceDoor \/ AlarmRedOff \/ AlarmBlueOff \/ AlarmLog
    \/ AlarmExitGreenOff \/ AlarmExitNotice

\* Lines 211-238
HvacEvaluation ==
    \/ HvacGate \/ HvacDoorRule \/ HvacHeatRule \/ HvacCoolRule
    \/ DoorRedOff \/ DoorBlueOff \/ HeatRedOn \/ HeatBlueOff
    \/ CoolBlueOn \/ CoolRedOff \/ IdleRedOff \/ IdleBlueOff
    \/ HvacLogChange

\* Everything monitor_environment does after the sensor read.
ControlStep == AlarmTransition \/ HvacEvaluation

MonitorEnvironment == ReadSensor \/ ReadSensorFails \/ ControlStep

-----------------------------------------------------------------------------
(* The when_pressed handlers, lines 109-129 and 166-176.  gpiozero runs them  *)
(* on its callback thread, one at a time: while toggle_door_state is between  *)
(* line 112 and line 129 no other handler starts.                             *)

btnFrame == << ambient_light_on, last_motion_time, fire_alarm_active, hvac_state,
               humidity, prev_state, sensorVars, now, pc_main, pc_motion, pc_fire >>

\* Line 112, except that a press that opens the door also sets hvac_state.
ToggleDoorStateSetsMode ==
    /\ pc_btn = "idle"
    /\ door_open' = ~door_open
    /\ hvac_state' = IF ~door_open THEN "OFF" ELSE hvac_state
    /\ pc_btn' = "L114"
    /\ UNCHANGED << desired_temp, ledVars, lcd, log, ambient_light_on,
                    last_motion_time, fire_alarm_active, humidity, prev_state,
                    sensorVars, now, pc_main, pc_motion, pc_fire >>

\* Line 112: the press itself
ToggleDoorState ==
    /\ pc_btn = "idle"
    /\ door_open' = ~door_open
    /\ pc_btn' = "L114"
    /\ UNCHANGED << desired_temp, ledVars, lcd, log, btnFrame >>

\* Lines 114-117 and 122-124: door_open is read again at line 115
ToggleScreen ==
    /\ pc_btn = "L114"
    /\ IF door_open
          THEN lcd' = "door_open" /\ pc_btn' = "L118"
          ELSE lcd' = "door_closed" /\ pc_btn' = "L125"
    /\ UNCHANGED << desired_temp, door_open, ledVars, log, btnFrame >>

\* Line 118
ToggleRedOff ==
    /\ pc_btn = "L118"
    /\ red_led' = FALSE
    /\ pc_btn' = "L119"
    /\ UNCHANGED << desired_temp, door_open, blue_led, green_led, lcd, log, btnFrame >>

\* Line 119
ToggleBlueOff ==
    /\ pc_btn = "L119"
    /\ blue_led' = FALSE
    /\ pc_btn' = "L120"
    /\ UNCHANGED << desired_temp, door_open, red_led, green_led, lcd, log, btnFrame >>

\* Lines 120-121: two lines of different families, which the log keeps apart
ToggleLogOpen ==
    /\ pc_btn = "L120"
    /\ log' = LogEvent(LogEvent(log, "DOOR OPEN"), "HVAC OFF")
    /\ pc_btn' = "L128"
    /\ UNCHANGED << desired_temp, door_open, ledVars, lcd, btnFrame >>

\* Line 125
ToggleLogClosed ==
    /\ pc_btn = "L125"
    /\ log' = LogEvent(log, "DOOR CLOSED")
    /\ pc_btn' = "L128"
    /\ UNCHANGED << desired_temp, door_open, ledVars, lcd, btnFrame >>

\* Lines 128-129
ToggleDwell ==
    /\ pc_btn = "L128"
    /\ lcd' = "blank"
    /\ pc_btn' = "idle"
    /\ UNCHANGED << desired_temp, door_open, ledVars, log, btnFrame >>

\* The increase with <= in place of <.
IncreaseDesiredTempPastMax ==
    /\ pc_btn = "idle"
    /\ desired_temp' = IF desired_temp <= MaxSetpoint THEN desired_temp + 1 ELSE desired_temp
    /\ UNCHANGED << door_open, ledVars, lcd, log, pc_btn, btnFrame >>

\* Lines 166-170
IncreaseDesiredTemp ==
    /\ pc_btn = "idle"
    /\ desired_temp' = IF desired_temp < MaxSetpoint THEN desired_temp + 1 ELSE desired_temp
    /\ UNCHANGED << door_open, ledVars, lcd, log, pc_btn, btnFrame >>

\* Lines 172-176
DecreaseDesiredTemp ==
    /\ pc_btn = "idle"
    /\ desired_temp' = IF desired_temp > MinSetpoint THEN desired_temp - 1 ELSE desired_temp
    /\ UNCHANGED << door_open, ledVars, lcd, log, pc_btn, btnFrame >>

DoorHandler ==
    \/ ToggleDoorState \/ ToggleScreen \/ ToggleRedOff \/ ToggleBlueOff
    \/ ToggleLogOpen \/ ToggleLogClosed \/ ToggleDwell

SetpointHandlers == IncreaseDesiredTemp \/ DecreaseDesiredTemp

-----------------------------------------------------------------------------
(* fire_alarm_loop, lines 94-104 *)

fireFrame == << desired_temp, ambient_light_on, door_open, last_motion_time,
                fire_alarm_active, hvac_state, humidity, prev_state, sensorVars,
                log, now, pc_main, pc_motion, pc_btn >>

\* Line 97 (and 104 when the alarm is inactive)
BlinkCheck ==
    /\ pc_fire = "L97"
    /\ pc_fire' = IF fire_alarm_active THEN "L98" ELSE "L97"
    /\ UNCHANGED << ledVars, lcd, fireFrame >>

\* Line 98
BlinkGreen ==
    /\ pc_fire = "L98"
    /\ green_led' = ~green_led
    /\ pc_fire' = "L99"
    /\ UNCHANGED << red_led, blue_led, lcd, fireFrame >>

\* Line 99
BlinkRed ==
    /\ pc_fire = "L99"
    /\ red_led' = ~red_led
    /\ pc_fire' = "L100"
    /\ UNCHANGED << green_led, blue_led, lcd, fireFrame >>

\* Line 100
BlinkBlue ==
    /\ pc_fire = "L100"
    /\ blue_led' = ~blue_led
    /\ pc_fire' = "L101"
    /\ UNCHANGED << green_led, red_led, lcd, fireFrame >>

\* Lines 101-104
BlinkScreen ==
    /\ pc_fire = "L101"
    /\ lcd' = "alert"
    /\ pc_fire' = "L97"
    /\ UNCHANGED << ledVars, fireFrame >>

FireAlarmLoop == BlinkCheck \/ BlinkGreen \/ BlinkRed \/ BlinkBlue \/ BlinkScreen

-----------------------------------------------------------------------------
(* motion_monitor, lines 74-89, and the clock it reads *)

motionFrame == << desired_temp, door_open, fire_alarm_active, hvac_state, humidity,
                  prev_state, sensorVars, red_led, blue_led, lcd, now,
                  pc_main, pc_fire, pc_btn >>

\* The timeout test with >= in place of >.
LightExpiredAtTimeout(t, last) == t - last >= LightTimeout

\* The timeout test with the two clock readings swapped.
LightExpiredSwapped(t, last) == last - t > LightTimeout

LightExpired(t, last) == t - last > LightTimeout

\* Line 78 (and 89 when the alarm is active)
MotionCheck ==
    /\ pc_motion = "L78"
    /\ pc_motion' = IF ~fire_alarm_active THEN "L79" ELSE "L78"
    /\ UNCHANGED << motionVars, green_led, log, motionFrame >>

\* MotionPoll, except that motion seen with the light already on logs again.
MotionPollRelogs(motion) ==
    /\ pc_motion = "L79"
    /\ IF motion
          THEN IF ~ambient_light_on
                  THEN green_led' = TRUE /\ pc_motion' = "L82"
                  ELSE green_led' = green_led /\ pc_motion' = "L83"
          ELSE IF ambient_light_on /\ LightExpired(now, last_motion_time)
                  THEN green_led' = FALSE /\ pc_motion' = "L87"
                  ELSE green_led' = green_led /\ pc_motion' = "L78"
    /\ UNCHANGED << motionVars, log, motionFrame >>

\* Lines 79-81 and 85-86: pir.motion_detected is `motion`
MotionPoll(motion) ==
    /\ pc_motion = "L79"
    /\ IF motion
          THEN IF ~ambient_light_on
                  THEN green_led' = TRUE /\ pc_motion' = "L82"
                  ELSE green_led' = green_led /\ pc_motion' = "L84"
          ELSE IF ambient_light_on /\ LightExpired(now, last_motion_time)
                  THEN green_led' = FALSE /\ pc_motion' = "L87"
                  ELSE green_led' = green_led /\ pc_motion' = "L78"
    /\ UNCHANGED << motionVars, log, motionFrame >>

MotionSeen == MotionPoll(TRUE)

MotionAbsent == MotionPoll(FALSE)

\* Line 82
MotionFlagOn ==
    /\ pc_motion = "L82"
    /\ ambient_light_on' = TRUE
    /\ pc_motion' = "L83"
    /\ UNCHANGED << last_motion_time, green_led, log, motionFrame >>

\* Line 83
MotionLogOn ==
    /\ pc_motion = "L83"
    /\ log' = LogEvent(log, "LIGHTS ON")
    /\ pc_motion' = "L84"
    /\ UNCHANGED << motionVars, green_led, motionFrame >>

\* Line 84
MotionStamp ==
    /\ pc_motion = "L84"
    /\ last_motion_time' = now
    /\ pc_motion' = "L78"
    /\ UNCHANGED << ambient_light_on, green_led, log, motionFrame >>

\* Line 87
MotionFlagOff ==
    /\ pc_motion = "L87"
    /\ ambient_light_on' = FALSE
    /\ pc_motion' = "L88"
    /\ UNCHANGED << last_motion_time, green_led, log, motionFrame >>

\* Line 88
MotionLogOff ==
    /\ pc_motion = "L88"
    /\ log' = LogEvent(log, "LIGHTS OFF")
    /\ pc_motion' = "L78"
    /\ UNCHANGED << motionVars, green_led, motionFrame >>

MotionMonitor ==
    \/ MotionCheck \/ MotionSeen \/ MotionAbsent \/ MotionFlagOn \/ MotionLogOn
    \/ MotionStamp \/ MotionFlagOff \/ MotionLogOff

\* One second passes.
Tick ==
    /\ now < StartTime + MaxTime
    /\ now' = now + 1
    /\ UNCHANGED << temperature_readings, desired_temp, ambient_light_on, door_open,
                    last_motion_time, fire_alarm_active, hvac_state, humidity,
                    avg_temp, wi, prev_state, ledVars, lcd, log, pushed,
                    pc_main, pc_motion, pc_fire, pc_btn >>

-----------------------------------------------------------------------------
(* Shutdown, lines 246-257.  Ctrl+C raises KeyboardInterrupt in the main      *)
(* thread, wherever monitor_environment is; the except clause runs there.     *)
(* motion_monitor and fire_alarm_loop are daemon threads: nothing stops or    *)
(* joins them, they run until the process ends after line 257.                *)

CleanupLines == {"L253", "L254", "L255", "L256", "L257", "exit"}

\* Line 252: the interrupt arrives
KeyboardInterrupt ==
    /\ pc_main \notin CleanupLines
    /\ pc_main' = "L253"
    /\ UNCHANGED << door_open, fire_alarm_active, hvac_state, prev_state, ledVars,
                    lcd, log, sensorVars, mainFrame >>

\* Line 253
CleanupScreen ==
    /\ pc_main = "L253"
    /\ lcd' = "blank"
    /\ pc_main' = "L254"
    /\ UNCHANGED << door_open, fire_alarm_active, hvac_state, prev_state, ledVars,
                    log, sensorVars, mainFrame >>

\* Line 254
CleanupRedOff ==
    /\ pc_main = "L254"
    /\ red_led' = FALSE
    /\ pc_main' = "L255"
    /\ UNCHANGED << door_open, fire_alarm_active, hvac_state, prev_state, blue_led,
                    green_led, lcd, log, sensorVars, mainFrame >>

\* Line 255
CleanupBlueOff ==
    /\ pc_main = "L255"
    /\ blue_led' = FALSE
    /\ pc_main' = "L256"
    /\ UNCHANGED << door_open, fire_alarm_active, hvac_state, prev_state, red_led,
                    green_led, lcd, log, sensorVars, mainFrame >>

\* Line 256
CleanupGreenOff ==
    /\ pc_main = "L256"
    /\ green_led' = FALSE
    /\ pc_main' = "L257"
    /\ UNCHANGED << door_open, fire_alarm_active, hvac_state, prev_state, red_led,
                    blue_led, lcd, log, sensorVars, mainFrame >>

\* Line 257 and the end of the main thread: the process ends.
ProcessExit ==
    /\ pc_main = "L257"
    /\ pc_main' = "exit"
    /\ UNCHANGED << door_open, fire_alarm_active, hvac_state, prev_state, ledVars,
                    lcd, log, sensorVars, mainFrame >>

Cleanup ==
    \/ CleanupScreen \/ CleanupRedOff \/ CleanupBlueOff \/ CleanupGreenOff
    \/ ProcessExit

\* The daemon threads run for as long as the process does.
ProcessAlive == pc_main # "exit"

-----------------------------------------------------------------------------
(* Specifications *)

\* The buttons are pressed only while the setpoint stays within MaxDrift of 72.
SetpointNearStart ==
    /\ SetpointHandlers
    /\ desired_temp' \in (InitialSetpoint - MaxDrift) .. (InitialSetpoint + MaxDrift)

\* The control side of the program: the slow loop and the button handlers.
\* motion_monitor and fire_alarm_loop are left out; they write green_led, red_led,
\* blue_led, lcd, ambient_light_on, last_motion_time and LIGHTS lines only, none of
\* which the slow loop or a handler reads.
Next == MonitorEnvironment \/ DoorHandler \/ SetpointNearStart

Spec == Init /\ [][Next]_vars

\* The outputs under the alarm: the slow loop, the door handler and the blinker,
\* the three writers of red_led and blue_led.
NextLeds == MonitorEnvironment \/ DoorHandler \/ FireAlarmLoop

SpecLeds == Init /\ [][NextLeds]_vars

\* The callback thread alone, the only writer of desired_temp, with no limit on
\* the presses.
NextButtons == DoorHandler \/ SetpointHandlers

SpecButtons == Init /\ [][NextButtons]_vars

\* The slow loop, which raises and clears the alarm, with the motion loop and the
\* clock.  The handlers write nothing the motion loop reads.
NextMotion == MonitorEnvironment \/ MotionMonitor \/ Tick

SpecMotion == Init /\ [][NextMotion]_vars

\* The slow loop alone, the only thread that touches temperature_readings, with
\* every appended sample recorded in `pushed`.
NextFilter == ReadSensorRecorded \/ ReadSensorFails \/ ControlStep

SpecFilter == Init /\ [][NextFilter]_vars

\* Shutdown: the slow loop, interrupted anywhere, the cleanup of the except
\* clause, and the blinker, a daemon thread that runs until the process ends.
BlinkerAlive == ProcessAlive /\ FireAlarmLoop

NextShutdown == MonitorEnvironment \/ KeyboardInterrupt \/ Cleanup \/ BlinkerAlive

SpecShutdown == Init /\ [][NextShutdown]_vars

\* The motion loop on its own, with the alarm inactive throughout (the slow loop
\* never runs), the clock, and motion in front of the PIR during the first second
\* only.  The loop is scheduled again and again and the clock keeps advancing.
MotionSeenAtStart == now = StartTime /\ MotionSeen

MotionLoopStep ==
    \/ MotionCheck \/ MotionSeenAtStart \/ MotionAbsent \/ MotionFlagOn
    \/ MotionLogOn \/ MotionStamp \/ MotionFlagOff \/ MotionLogOff

NextDecay == MotionLoopStep \/ Tick

SpecDecay ==
    Init /\ [][NextDecay]_vars /\ WF_vars(MotionLoopStep) /\ WF_vars(Tick)

\* One HVAC evaluation, run to its end from line 211 with the alarm inactive, from
\* every window, setpoint, door state, previous mode and LED state the program can
\* be in at that line.
Modes == {"OFF", "HEAT", "AC"}

InitHvac ==
    /\ temperature_readings \in [1 .. WindowSize -> {FahrenheitFifths(c) : c \in Celsius}]
    /\ humidity \in Humidities
    /\ avg_temp = AverageOf(temperature_readings)
    /\ wi = WeatherIndex(avg_temp, humidity)
    /\ ~FireTrips(wi)
    /\ desired_temp \in MinSetpoint .. MaxSetpoint
    /\ door_open \in BOOLEAN
    /\ hvac_state \in Modes
    /\ prev_state = "OFF"
    /\ red_led \in BOOLEAN
    /\ blue_led \in BOOLEAN
    /\ fire_alarm_active = FALSE
    /\ ambient_light_on = FALSE
    /\ last_motion_time = 0
    /\ green_led = FALSE
    /\ lcd = "blank"
    /\ log = [f \in Families |-> NoLine]
    /\ now = StartTime
    /\ pushed = << >>
    /\ pc_main = "L211"
    /\ pc_motion = "L78"
    /\ pc_fire = "L97"
    /\ pc_btn = "idle"

SpecHvac == InitHvac /\ [][HvacEvaluation]_vars

-----------------------------------------------------------------------------
(* Properties *)

\* C1: whenever the fire alarm is active, hvac_state is "OFF".
AlarmImpliesHvacOff == fire_alarm_active => hvac_state = "OFF"

\* C2: whenever the fire alarm is active, the door is open.  The state between
\* line 195 and line 196, where the alarm is set and the door not yet forced open,
\* is left out, so that what is refuted is a door closed by a press during the alarm.
AlarmImpliesDoorOpen == (fire_alarm_active /\ pc_main # "L196") => door_open

\* C3 as stated: whenever the fire alarm is active, the heat and cool outputs are
\* both off.  The states of alarm entry before lines 197-198 have run are left out.
AlarmImpliesOutputsOff ==
    (fire_alarm_active /\ pc_main \notin {"L196", "L197", "L198"})
        => (~red_led /\ ~blue_led)

\* C3 as amended: while the fire alarm is active, a step that turns the heat or the
\* cool output on is a toggle of fire_alarm_loop (line 99 or 100); the slow loop and
\* the handlers never turn either on under the alarm.
OnlyBlinkAssertsUnderAlarm ==
    [][ (fire_alarm_active /\ ((~red_led /\ red_led') \/ (~blue_led /\ blue_led')))
            => (pc_fire \in {"L99", "L100"} /\ pc_fire' # pc_fire) ]_vars

\* An output turned on by the blinker while the alarm is active and the slow loop
\* is between iterations.
BlinkAssertsUnderAlarm ==
    /\ fire_alarm_active
    /\ pc_main = "L188"
    /\ hvac_state = "OFF"
    /\ red_led
    /\ pc_fire = "L100"

\* C4: the setpoint starts at 72 and stays within [65, 99]; an increase at 99 and
\* a decrease at 65 leave it alone, any other increase adds exactly 1, any other
\* decrease subtracts exactly 1, and nothing else changes it.
SetpointSaturates ==
    /\ desired_temp = 72
    /\ [](desired_temp \in 65 .. 99)
    /\ [][ IncreaseDesiredTemp
             => desired_temp' = IF desired_temp = 99 THEN 99 ELSE desired_temp + 1 ]_vars
    /\ [][ DecreaseDesiredTemp
             => desired_temp' = IF desired_temp = 65 THEN 65 ELSE desired_temp - 1 ]_vars
    /\ [][ desired_temp' # desired_temp
             => (pc_btn = "idle" /\ desired_temp' \in {desired_temp - 1, desired_temp + 1}) ]_vars

\* The setpoint at its upper bound, with the callback thread free to take a press.
SetpointAtMax == desired_temp = 99 /\ pc_btn = "idle"

\* C5: once the alarm check of an iteration has run, fire_alarm_active equals
\* (wi > 90), and only the alarm check (line 193) changes fire_alarm_active.
AlarmTracksIndex ==
    /\ []((wi # NoValue /\ pc_main # "L193") => (fire_alarm_active <=> wi > 90))
    /\ [][ fire_alarm_active' # fire_alarm_active
             => (pc_main = "L193" /\ pc_main' # "L193") ]_vars

\* The alarm just cleared by an iteration whose index is exactly 90.
AlarmClearedAtNinety == pc_main = "L203" /\ wi = 90 /\ ~fire_alarm_active

\* C6: the HVAC gate (line 211) is entered only from the alarm transition; the lines
\* of the HVAC evaluation (219-238) are entered only through the gate with the alarm
\* inactive, so the slow loop is at one of them only while the alarm is inactive;
\* and no step changes hvac_state while the alarm is active.
HvacLines ==
    {"L219", "L221", "L222", "L223", "L225", "L226", "L227", "L229", "L230",
     "L233", "L234", "L237"}

HvacSkippedUnderAlarm ==
    /\ [](pc_main \in HvacLines => ~fire_alarm_active)
    /\ [][ (pc_main # "L211" /\ pc_main' = "L211")
             => pc_main \in {"L193", "L199", "L204"} ]_vars
    /\ [][ (pc_main \notin HvacLines /\ pc_main' \in HvacLines)
             => (pc_main = "L211" /\ ~fire_alarm_active) ]_vars
    /\ [][ (pc_main = "L211" /\ fire_alarm_active /\ pc_main' # pc_main)
             => (pc_main' = "L188" /\ UNCHANGED << hvac_state, red_led, blue_led >>) ]_vars
    /\ [][ fire_alarm_active => hvac_state' = hvac_state ]_vars

\* The slow loop at the gate with the alarm active and a mode other than "OFF".
GateReachedUnderAlarm == pc_main = "L211" /\ fire_alarm_active /\ hvac_state # "OFF"

\* C7: the rule of the claim.
HvacRule(index, setpoint, door) ==
    IF door THEN "OFF"
    ELSE IF index < setpoint - 3 THEN "HEAT"
    ELSE IF index > setpoint + 3 THEN "AC"
    ELSE "OFF"

\* C7: an HVAC evaluation run with the alarm inactive leaves hvac_state at the mode
\* the rule gives for the index, the setpoint and the door state, whatever the mode
\* was before.
HvacEvaluationFollowsRule ==
    pc_main = "L188" => hvac_state = HvacRule(wi, desired_temp, door_open)

\* An evaluation finished at the heating boundary, coming from "HEAT".
HvacBoundaryEvaluated ==
    /\ pc_main = "L188"
    /\ ~door_open
    /\ wi = desired_temp - 3
    /\ prev_state = "HEAT"
    /\ hvac_state = "OFF"

\* C8: the integer nearest to the mean of three samples given in fifths of a degree.
NearestToMean(a, b, c) ==
    CHOOSE n \in 0 .. 200 : 2 * (15 * n - (a + b + c)) <= 15 /\ 2 * ((a + b + c) - 15 * n) < 15

\* C8: the window holds the last min(n, 3) of the n samples read so far, in order;
\* a failed read leaves it alone; no value is returned before the third sample; and
\* every successful read from the third on returns the nearest integer to the mean
\* of the last three samples.
FilterSlides ==
    /\ [](/\ Len(temperature_readings) <= 3
          /\ Len(temperature_readings) = (IF Len(pushed) < 3 THEN Len(pushed) ELSE 3)
          /\ \A i \in 1 .. Len(temperature_readings) :
                temperature_readings[i] =
                    pushed[Len(pushed) - Len(temperature_readings) + i]
          /\ (Len(pushed) < 3 => avg_temp = NoValue))
    /\ [][ (pushed' # pushed /\ Len(pushed') >= 3)
             => avg_temp' = NearestToMean(pushed'[Len(pushed') - 2],
                                          pushed'[Len(pushed') - 1],
                                          pushed'[Len(pushed')]) ]_vars
    /\ [][ pushed' = pushed => temperature_readings' = temperature_readings ]_vars

\* A value returned after the oldest sample of a full window was evicted.
FilterHasSlid ==
    /\ Len(pushed) = 4
    /\ pushed[1] # pushed[4]
    /\ avg_temp # NoValue
    /\ pc_main = "L193"

\* C9: no HVAC line of the log repeats the HVAC line before it; in particular the
\* HVAC evaluation (line 238) never writes the line that is already the last HVAC
\* line, as it would if it logged a mode that had not changed.
HvacLogEdgeTriggered ==
    [][ HvacLogChange => ~log'["HVAC"].repeated ]_vars

\* C10: ambient_light_on goes from true to false only at line 87, which is entered
\* only by a poll that found no motion with more than 10 seconds on the clock since
\* last_motion_time; while 10 seconds or less have passed, the light stays on.
LightOffOnlyAfterTimeout ==
    /\ [][ (ambient_light_on /\ ~ambient_light_on')
             => (pc_motion = "L87" /\ now - last_motion_time > 10) ]_vars
    /\ [][ (pc_motion # "L87" /\ pc_motion' = "L87")
             => (MotionAbsent /\ ambient_light_on /\ now - last_motion_time > 10) ]_vars

\* The light just switched off, 11 seconds after the last motion.
LightSwitchedOff ==
    /\ pc_motion = "L88"
    /\ ~ambient_light_on
    /\ now - last_motion_time = 11

\* C11: the LIGHTS lines of the log follow the edges of ambient_light_on.  A LIGHTS
\* line is written only by the step after the flag changed (line 83 after 82, line
\* 88 after 87); outside those two places the last LIGHTS line says what the flag
\* is, no LIGHTS line repeats the one before it, and the first one is "LIGHTS ON".
LightsLogEdgeTriggered ==
    /\ [][ log'["LIGHTS"] # log["LIGHTS"]
             => \/ /\ pc_motion = "L83"
                   /\ ambient_light_on
                   /\ log["LIGHTS"].last # "LIGHTS ON"
                   /\ log'["LIGHTS"].last = "LIGHTS ON"
                \/ /\ pc_motion = "L88"
                   /\ ~ambient_light_on
                   /\ log["LIGHTS"].last = "LIGHTS ON"
                   /\ log'["LIGHTS"].last = "LIGHTS OFF" ]_vars
    /\ [][ ~log'["LIGHTS"].repeated ]_vars
    /\ [][ ambient_light_on' # ambient_light_on
             => /\ pc_motion' \in {"L83", "L88"}
                /\ log'["LIGHTS"] = log["LIGHTS"] ]_vars
    /\ [][ pc_motion' \notin {"L83", "L88"}
             => (ambient_light_on' <=> log'["LIGHTS"].last = "LIGHTS ON") ]_vars

\* The light went on and off again, and both edges are in the log.
LightsOffLogged ==
    /\ pc_motion = "L78"
    /\ ~ambient_light_on
    /\ log["LIGHTS"] = [last |-> "LIGHTS OFF", repeated |-> FALSE]

\* C12: while fire_alarm_active is true, no step of the motion loop changes
\* ambient_light_on, last_motion_time or green_led, or writes a LIGHTS line.
MotionIdleUnderAlarm ==
    [][ (fire_alarm_active /\ pc_motion' # pc_motion)
          => /\ UNCHANGED << ambient_light_on, last_motion_time, green_led >>
             /\ log'["LIGHTS"] = log["LIGHTS"] ]_vars

\* C13: a pass of the slow loop whose sensor read fails (nothing recorded in
\* `pushed`) leaves temperature_readings as it was and yields no value; and a pass
\* in which the filter yields no value goes straight back to line 188 with
\* fire_alarm_active, hvac_state, door_open, the three LEDs, the weather index and
\* the log unchanged, so an active alarm stays active.
NoValueKeepsState ==
    /\ [][ (pc_main = "L188" /\ pushed' = pushed)
             => /\ temperature_readings' = temperature_readings
                /\ avg_temp' = NoValue ]_vars
    /\ [][ (pc_main = "L188" /\ avg_temp' = NoValue)
             => /\ pc_main' = "L188"
                /\ UNCHANGED << fire_alarm_active, hvac_state, door_open, ledVars,
                                wi, log >> ]_vars

\* A read failed with the window full and the alarm active.
ReadFailedUnderAlarm ==
    /\ pc_main = "L188"
    /\ avg_temp = NoValue
    /\ Len(temperature_readings) = WindowSize
    /\ fire_alarm_active

\* C14: once the cleanup of lines 253-256 has run, no task asserts an output or
\* writes the display again: from line 257 on no LED goes on and lcd is not
\* written.
NoOutputAfterCleanup ==
    [][ (pc_main \in {"L257", "exit"})
          => /\ (red_led' => red_led)
             /\ (blue_led' => blue_led)
             /\ (green_led' => green_led)
             /\ lcd' = lcd ]_vars

\* C15: once a press has opened the door and the handler has switched red_led and
\* blue_led off (it is past line 119), no step turns either LED on while door_open
\* stays true and the alarm is inactive.
DoorOpenKeepsOutputsOff ==
    [][ ( /\ door_open /\ door_open'
          /\ ~fire_alarm_active
          /\ pc_btn \in {"L120", "L128", "idle"}
          /\ (log["DOOR"].last = "DOOR OPEN" \/ pc_btn = "L120") )
          => /\ (red_led' => red_led)
             /\ (blue_led' => blue_led) ]_vars

\* C16: the blink loop does nothing while the alarm is inactive: no step of
\* fire_alarm_loop changes fire_alarm_active, and no step of it taken while
\* fire_alarm_active is false toggles an LED or writes the display.
BlinkIdleWithoutAlarm ==
    [][ pc_fire' # pc_fire
          => /\ fire_alarm_active' = fire_alarm_active
             /\ (~fire_alarm_active => UNCHANGED << ledVars, lcd >>) ]_vars

\* C17: hvac_state is written only by the HVAC evaluation (lines 219-234).  No
\* step of a handler, door or setpoint, changes hvac_state or moves the slow loop;
\* and a press that closes the door changes no LED either, so hvac_state and the
\* outputs keep their values until the next evaluation.
ModeWrittenByEvaluationOnly ==
    /\ [][ hvac_state' # hvac_state
             => /\ pc_main \in {"L219", "L223", "L227"}
                /\ pc_main' # pc_main
                /\ ~fire_alarm_active' ]_vars
    /\ [][ (pc_btn' # pc_btn \/ desired_temp' # desired_temp)
             => UNCHANGED << hvac_state, prev_state, pc_main >> ]_vars
    /\ [][ ( \/ door_open /\ ~door_open'
             \/ pc_btn' # pc_btn /\ (pc_btn = "L125" \/ pc_btn' = "L125") )
             => UNCHANGED << hvac_state, ledVars, pc_main >> ]_vars

\* The door was closed by a press; hvac_state is still the OFF the open door gave
\* it, although the index calls for heat.
DoorClosedModeKept ==
    /\ pc_btn = "L128"
    /\ ~door_open
    /\ log["DOOR"].last = "DOOR CLOSED"
    /\ ~fire_alarm_active
    /\ hvac_state = "OFF"
    /\ NeedsHeat(wi, desired_temp)
    /\ ~red_led

\* C18: with the alarm inactive and no more motion, a light that is on goes off.
\* From any state between polls where ambient_light_on is true, the first second
\* is over and the clock has room to pass last_motion_time by more than 10
\* seconds, the loop reaches a state where ambient_light_on is false, green_led
\* is off and the log holds one "LIGHTS OFF" line after the "LIGHTS ON".
LightDecays ==
    ( /\ ambient_light_on
      /\ ~fire_alarm_active
      /\ pc_motion \in {"L78", "L79"}
      /\ now > StartTime
      /\ last_motion_time + LightTimeout < StartTime + MaxTime )
    ~> ( /\ ~ambient_light_on
         /\ ~green_led
         /\ log["LIGHTS"] = [last |-> "LIGHTS OFF", repeated |-> FALSE] )

\* The light has decayed: it is off, more than 10 seconds after the last motion.
LightDecayed ==
    /\ pc_motion = "L78"
    /\ ~ambient_light_on
    /\ ~green_led
    /\ log["LIGHTS"].last = "LIGHTS OFF"
    /\ now - last_motion_time > LightTimeout

\* C19: whenever the alarm is inactive and both loops are between passes (the
\* motion loop at line 78, the slow loop at line 188), green_led is on exactly
\* when ambient_light_on is true.
LightMatchesFlag ==
    (~fire_alarm_active /\ pc_motion = "L78" /\ pc_main = "L188")
       => (green_led <=> ambient_light_on)

\* C20: whenever the alarm is inactive, red_led (heat) and blue_led (cool) are
\* never on together.
HeatAndCoolExclusive ==
    ~fire_alarm_active => ~(red_led /\ blue_led)

=============================================================================
